---- MODULE Spec2Model ----
(***************************************************************************)
(* PR Diff Exporter (src/src/content.ts): class PRDiffExporter.            *)
(*                                                                         *)
(* The exporter lives in one page.  A click on its button starts an export *)
(* run: handleExportClick disables the button, loadAllDiffs scrolls and    *)
(* polls until the number of .file sections is stable, exportDiffs walks   *)
(* the sections (processDiff, with tryLoadLargeDiff for sections whose     *)
(* diff is not rendered yet), writes one markdown entry per record into    *)
(* this.zip and hands the generated archive to saveAs.                     *)
(*                                                                         *)
(* Text is modelled as a sequence of strings (characters for file paths,   *)
(* whole literals for the fixed pieces of the templates).  The page is the *)
(* environment: what a querySelector returns is drawn at the moment the    *)
(* code reads it, and again after every timed wait.                        *)
(***************************************************************************)
EXTENDS Integers, Sequences, FiniteSets, TLC

(***************************************************************************)
(* Bounds of the model.                                                    *)
(***************************************************************************)
MaxFiles == 2      \* .file sections the page shows at most
MaxLines == 2      \* code lines a section shows at most
MaxRuns == 2       \* invocations of handleExportClick that can be in flight
MaxPath == 4       \* characters of a file path given to the path helpers

(***************************************************************************)
(* Program constants.                                                      *)
(***************************************************************************)
maxTries == 50         \* loadAllDiffs: const maxTries = 50
StableCycles == 3      \* loadAllDiffs: if (stableCount >= 3) break
MaxAttempts == 5       \* tryLoadLargeDiff: attempt < 5

Runs == 1..MaxRuns

(***************************************************************************)
(* Strings.                                                                *)
(***************************************************************************)
RECURSIVE TrimStart(_)
TrimStart(s) ==
    IF s # <<>> /\ Head(s) = " " THEN TrimStart(Tail(s)) ELSE s

RECURSIVE TrimEnd(_)
TrimEnd(s) ==
    IF s # <<>> /\ s[Len(s)] = " " THEN TrimEnd(SubSeq(s, 1, Len(s) - 1)) ELSE s

\* String.prototype.trim
Trim(s) == TrimEnd(TrimStart(s))

\* String.prototype.split(sep) for a one-character separator: the pieces
\* between the separators, empty pieces included.
RECURSIVE Split(_, _)
Split(s, sep) ==
    IF \E i \in 1..Len(s) : s[i] = sep
    THEN LET i == CHOOSE k \in 1..Len(s) :
                      s[k] = sep /\ \A j \in 1..(k - 1) : s[j] # sep
         IN  <<SubSeq(s, 1, i - 1)>> \o Split(SubSeq(s, i + 1, Len(s)), sep)
    ELSE <<s>>

\* Array.prototype.join(sep)
RECURSIVE Join(_, _)
Join(parts, sep) ==
    IF parts = <<>> THEN <<>>
    ELSE IF Len(parts) = 1 THEN parts[1]
    ELSE parts[1] \o <<sep>> \o Join(Tail(parts), sep)

getFileExtension(filePath) ==
    LET parts == Split(filePath, ".")
    IN  IF Len(parts) > 1 THEN parts[Len(parts)] ELSE <<>>

getBaseName(filePath) ==
    LET last == Split(filePath, "/")[Len(Split(filePath, "/"))]
    IN  IF last # <<>> THEN last ELSE filePath

(***************************************************************************)
(* The page: what one .file section shows at one instant.                  *)
(*   path        text of its .file-info a (<<>> when there is none)        *)
(*   binary      a .diff-view-binary or .rendered element is present       *)
(*   label       text of the first .Label--success/.Label in the header    *)
(*   infoNewFile the header text contains 'new file'                       *)
(*   lines       the .blob-code elements in document order, by kind        *)
(*   btn         a button/summary whose text has a load-diff keyword       *)
(*   link        an <a> whose text has a load-diff keyword                 *)
(*   tooLargeDisplay / tooLargeRender  the section text contains 'diff is  *)
(*               too large to display' / 'too large to render'             *)
(***************************************************************************)
LineKinds == {"deletion", "addition", "context"}

LineSeqs == UNION {[1..k -> LineKinds] : k \in 0..MaxLines}

\* textContent of a .blob-code element
LineText(kind) ==
    CASE kind = "deletion" -> <<"foo">>
      [] kind = "addition" -> <<"bar">>
      [] OTHER -> <<"ctx">>

Paths == { <<>>, <<" ">>, <<"d", "/", "a", ".", "c">>, <<" ", "b">> }

Labels == {"", "new file", "added", "renamed"}

AllSections ==
    [path : Paths, binary : BOOLEAN, label : Labels, infoNewFile : BOOLEAN,
     lines : LineSeqs, btn : BOOLEAN, link : BOOLEAN,
     tooLargeDisplay : BOOLEAN, tooLargeRender : BOOLEAN]

\* The sections of the pages whole export runs are explored on: a section
\* without a file path, a binary d/a.c, a new file b with one added line,
\* b with its diff not rendered, and d/a.c with at most one changed line,
\* with or without a load-diff button, a load-diff link and the 'diff is
\* too large to display' text.
PageSections ==
    LET a == <<"d", "/", "a", ".", "c">>
        b == <<" ", "b">>
        Plain(path, lines) ==
            [path |-> path, binary |-> FALSE, label |-> "",
             infoNewFile |-> FALSE, lines |-> lines, btn |-> FALSE,
             link |-> FALSE, tooLargeDisplay |-> FALSE,
             tooLargeRender |-> FALSE]
    IN  {Plain(<<>>, <<>>),
         [Plain(a, <<>>) EXCEPT !.binary = TRUE],
         [Plain(b, <<"addition">>) EXCEPT !.label = "new file"]}
        \cup [path : {b}, binary : {FALSE}, label : {""},
              infoNewFile : {FALSE}, lines : {<<>>}, btn : BOOLEAN,
              link : BOOLEAN, tooLargeDisplay : {FALSE},
              tooLargeRender : {FALSE}]
        \cup [path : {a}, binary : {FALSE}, label : {""},
              infoNewFile : {FALSE},
              lines : {<<>>, <<"deletion">>, <<"addition">>}, btn : BOOLEAN,
              link : BOOLEAN, tooLargeDisplay : BOOLEAN,
              tooLargeRender : {FALSE}]

Blocks(file, kind) == SelectSeq(file.lines, LAMBDA k : k = kind)

\* blocks.map(block => block.textContent || '').join('\n')
BlockText(blocks) ==
    Join([i \in 1..Len(blocks) |-> LineText(blocks[i])], "\n")

isBinaryFile(file) == file.binary

isNewFile(file) ==
    \/ file.label = "new file"
    \/ file.label = "added"
    \/ file.infoNewFile

(***************************************************************************)
(* DiffHunk.  The optional flags of the interface are absent (undefined)   *)
(* on the record of a binary section; every reader tests them for truth,   *)
(* so absent is modelled as FALSE.                                         *)
(***************************************************************************)
DiffHunk(before, after, filePath, tooLarge, notInline, isNew) ==
    [before |-> before, after |-> after, filePath |-> filePath,
     extension |-> getFileExtension(filePath),
     baseName |-> getBaseName(filePath),
     tooLarge |-> tooLarge, notInline |-> notInline, isNewFile |-> isNew]

\* processDiff returned null
NoHunk == DiffHunk(<<>>, <<>>, <<>>, FALSE, FALSE, FALSE)

\* Variant of FilePathOf: the text of the link is taken untrimmed.
FilePathOfUntrimmed(file) == file.path

\* const filePath = file.querySelector('.file-info a')?.textContent?.trim()
FilePathOf(file) == Trim(file.path)

HasDiffLines(file) ==
    Len(Blocks(file, "deletion")) > 0 \/ Len(Blocks(file, "addition")) > 0

\* Variant of Classify: the new-file test comes before the binary test.
ClassifyNewFirst(file) ==
    IF FilePathOf(file) = <<>> THEN "skip"
    ELSE IF isNewFile(file) THEN "new"
    ELSE IF isBinaryFile(file) THEN "binary"
    ELSE IF ~HasDiffLines(file) THEN "load"
    ELSE "normal"

\* Variant of Classify: the load is tried whenever no added line is there.
ClassifyByAdditions(file) ==
    IF FilePathOf(file) = <<>> THEN "skip"
    ELSE IF isBinaryFile(file) THEN "binary"
    ELSE IF isNewFile(file) THEN "new"
    ELSE IF Len(Blocks(file, "addition")) = 0 THEN "load"
    ELSE "normal"

\* processDiff up to its first await: "skip" (return null), "binary",
\* "new", "load" (tryLoadLargeDiff is called) or "normal".
Classify(file) ==
    IF FilePathOf(file) = <<>> THEN "skip"
    ELSE IF isBinaryFile(file) THEN "binary"
    ELSE IF isNewFile(file) THEN "new"
    ELSE IF ~HasDiffLines(file) THEN "load"
    ELSE "normal"

BinaryHunk(file) ==
    DiffHunk(<<>>, <<>>, FilePathOf(file), FALSE, FALSE, FALSE)

NewFileHunk(file) ==
    DiffHunk(<<"This file did not exist before.">>,
             BlockText(file.lines), FilePathOf(file), FALSE, FALSE, TRUE)

TooLargeText(file) == file.tooLargeDisplay \/ file.tooLargeRender

\* Variant of LoadedHunk: tooLarge is set without looking at the text.
LoadedHunkUnconfirmed(file, filePath, loadResult) ==
    DiffHunk(BlockText(Blocks(file, "deletion")),
             BlockText(Blocks(file, "addition")),
             filePath,
             loadResult = "tooLarge",
             loadResult = "notInline",
             FALSE)

\* Variant of LoadedHunk: tooLarge follows the section's text alone,
\* whatever tryLoadLargeDiff returned.
LoadedHunkByTextAlone(file, filePath, loadResult) ==
    DiffHunk(BlockText(Blocks(file, "deletion")),
             BlockText(Blocks(file, "addition")),
             filePath,
             loadResult # "none" /\ TooLargeText(file),
             loadResult = "notInline",
             FALSE)

\* processDiff from the return of tryLoadLargeDiff (or from the else branch
\* when no load was needed, loadResult = "none") to its return statement;
\* file is the section as it is when the lines are read again.
LoadedHunk(file, filePath, loadResult) ==
    DiffHunk(BlockText(Blocks(file, "deletion")),
             BlockText(Blocks(file, "addition")),
             filePath,
             loadResult = "tooLarge" /\ TooLargeText(file),
             loadResult = "notInline",
             FALSE)

\* One pass of the body of tryLoadLargeDiff's for loop over the section as
\* it is now: "notInline" and "loaded" set the flag and break, "tooLargeMsg"
\* breaks, "click" clicks the control and waits 1200 ms, "poll" waits 600 ms.
TryLoadAttempt(file) ==
    IF ~file.btn /\ file.link THEN "notInline"
    ELSE IF file.btn THEN "click"
    ELSE IF HasDiffLines(file) THEN "loaded"
    ELSE IF file.tooLargeDisplay THEN "tooLargeMsg"
    ELSE "poll"

\* The three return statements of tryLoadLargeDiff.
TryLoadResult(notInline, loaded) ==
    IF notInline THEN "notInline"
    ELSE IF loaded THEN "loaded"
    ELSE "tooLarge"

\* Variant of createMarkdownContent: the too-large test comes before the
\* not-inline test, and the empty test before the new-file test.
createMarkdownContentReordered(diff) ==
    IF diff.tooLarge
    THEN <<"# ">> \o diff.baseName
         \o <<"\n\nDiff too large to display on GitHub. Not available for export.">>
    ELSE IF diff.notInline
    THEN <<"# ">> \o diff.baseName
         \o <<"\n\nDiff not available inline. Please view the file directly on GitHub.">>
    ELSE IF diff.before = <<>> /\ diff.after = <<>>
    THEN <<"# ">> \o diff.baseName
         \o <<"\n\nNo textual changes, file is binary, or too large to display.">>
    ELSE IF diff.isNewFile
    THEN <<"# ">> \o diff.baseName
         \o <<"\n\n## Before\nThis file did not exist before.\n\n## After\n~~~">>
         \o diff.extension \o <<"\n">> \o diff.after \o <<"\n~~~\n">>
    ELSE <<"# ">> \o diff.baseName
         \o <<"\n\n## Before\n~~~">> \o diff.extension \o <<"\n">>
         \o diff.before \o <<"\n~~~\n\n## After\n~~~">> \o diff.extension
         \o <<"\n">> \o diff.after \o <<"\n~~~\n">>

\* The three-backquote code fence of the templates is written ~~~ here.
createMarkdownContent(diff) ==
    IF diff.notInline
    THEN <<"# ">> \o diff.baseName
         \o <<"\n\nDiff not available inline. Please view the file directly on GitHub.">>
    ELSE IF diff.tooLarge
    THEN <<"# ">> \o diff.baseName
         \o <<"\n\nDiff too large to display on GitHub. Not available for export.">>
    ELSE IF diff.isNewFile
    THEN <<"# ">> \o diff.baseName
         \o <<"\n\n## Before\nThis file did not exist before.\n\n## After\n~~~">>
         \o diff.extension \o <<"\n">> \o diff.after \o <<"\n~~~\n">>
    ELSE IF diff.before = <<>> /\ diff.after = <<>>
    THEN <<"# ">> \o diff.baseName
         \o <<"\n\nNo textual changes, file is binary, or too large to display.">>
    ELSE <<"# ">> \o diff.baseName
         \o <<"\n\n## Before\n~~~">> \o diff.extension \o <<"\n">>
         \o diff.before \o <<"\n~~~\n\n## After\n~~~">> \o diff.extension
         \o <<"\n">> \o diff.after \o <<"\n~~~\n">>

(***************************************************************************)
(* this.zip: the entries of the JSZip object in insertion order.  by       *)
(* records which run wrote the entry last: "cur" the run in flight, "ok"   *)
(* an earlier run that saved its archive, "aborted" an earlier run that    *)
(* ended in the catch block.                                               *)
(***************************************************************************)
ZipHas(z, name) == \E i \in 1..Len(z) : z[i].name = name

\* The archive holds a file entry.
HasFiles(z) == \E i \in 1..Len(z) : ~z[i].dir

\* Variant of ZipFile: an existing name keeps its old data.
ZipFileKeepsFirst(z, name, content) ==
    IF ZipHas(z, name) THEN z
    ELSE Append(z, [name |-> name, dir |-> FALSE, content |-> content,
                    by |-> "cur"])

\* Variant of ZipFile: every call appends an entry, also under a name that
\* is there already.
ZipFileAppends(z, name, content) ==
    Append(z, [name |-> name, dir |-> FALSE, content |-> content, by |-> "cur"])

\* JSZip file(name, data): a new name is appended, an existing name keeps
\* its place and gets the new data.
ZipFile(z, name, content) ==
    LET e == [name |-> name, dir |-> FALSE, content |-> content, by |-> "cur"]
    IN  IF ZipHas(z, name)
        THEN [i \in 1..Len(z) |-> IF z[i].name = name THEN e ELSE z[i]]
        ELSE Append(z, e)

\* JSZip folder(name): creates the directory entry unless it is there.
ZipFolder(z, name) ==
    IF ZipHas(z, name) THEN z
    ELSE Append(z, [name |-> name, dir |-> TRUE, content |-> <<>>, by |-> "dir"])

\* folder.file(baseName + '.md', ...) with folder = zip.folder('diffs')
EntryName(diff) == <<"diffs/">> \o diff.baseName \o <<".md">>

\* The entries the run that ends now wrote get its outcome.
Settle(z, outcome) ==
    [i \in 1..Len(z) |-> IF z[i].by = "cur" THEN [z[i] EXCEPT !.by = outcome]
                         ELSE z[i]]

\* Math.round((current / total) * 100), 0 when total is 0
Percentage(current, total) ==
    IF total > 0 THEN (200 * current + total) \div (2 * total) ELSE 0

\* updateProgress(current, total) without a message
ProcessingText(current, total) ==
    <<"Processing files: ", Percentage(current, total), "% (", current, "/",
      total, ")">>

\* updateProgress(n, 0, 'Loading all diffs... (n files)')
LoadingText(n) == <<"Loading all diffs... (", n, " files)">>

(***************************************************************************)
(* State.                                                                  *)
(*   disabled     this.exportButton.disabled                               *)
(*   progressBar  this.progressBar: style.display and textContent          *)
(*   zip          this.zip, created once by the constructor                *)
(*   scroll       where window.scrollTo left the view                      *)
(*   run          the invocations of handleExportClick: position (pc) and  *)
(*                local variables of loadAllDiffs, exportDiffs,            *)
(*                processDiff and tryLoadLargeDiff; saves, exit, log and   *)
(*                fresh (this.zip held no file when exportDiffs began)     *)
(*                are history                                              *)
(*   scope        what the page can do.  "export": it is made of           *)
(*                PageSections and its section count no longer changes     *)
(*                once loadAllDiffs has counted it; "loader": the count    *)
(*                changes freely; "section": one section drawn from        *)
(*                AllSections, with what processDiff read kept in obs      *)
(*   obs          history of the section being processed (scope "section") *)
(*   call         a call of one of the pure methods on its own (scopes      *)
(*                "format" and "path"): the method, its argument, what it   *)
(*                returned, what a second call returned, calls made         *)
(***************************************************************************)
VARIABLES disabled, progressBar, zip, scroll, run, scope, obs, call

vars == <<disabled, progressBar, zip, scroll, run, scope, obs, call>>

IdleRun ==
    [pc |-> "idle", lastFileCount |-> 0, stableCount |-> 0, tries |-> 0,
     iters |-> 0, totalFiles |-> 0, processedFiles |-> 0, filePath |-> <<>>,
     attempt |-> 0, clicks |-> 0, log |-> <<>>, zipBlob |-> <<>>,
     saves |-> 0, exit |-> "none", fresh |-> FALSE]

NoFile ==
    [path |-> <<>>, binary |-> FALSE, label |-> "", infoNewFile |-> FALSE,
     lines |-> <<>>, btn |-> FALSE, link |-> FALSE,
     tooLargeDisplay |-> FALSE, tooLargeRender |-> FALSE]

\* obs: how processDiff classified the section (kind), whether the section
\* had a file path, no binary marker, no new-file marker and no changed
\* line when processDiff was called (unrendered), the passes of the
\* load loop and clicks so far, whether a pass saw a load-diff link and no
\* button (linkOnly), a button (button), changed lines and no control
\* (bareLines); once processDiff returned (done): the section as last read,
\* the result of tryLoadLargeDiff and the record.
NoObs ==
    [done |-> FALSE, kind |-> "none", unrendered |-> FALSE, last |-> NoFile,
     attempts |-> 0,
     clicks |-> 0, linkOnly |-> FALSE, button |-> FALSE, bareLines |-> FALSE,
     result |-> "none", skipped |-> FALSE, diff |-> NoHunk]

NoCall == [fn |-> "none", arg |-> <<>>, out |-> <<>>, again |-> <<>>, calls |-> 0]

Universe == IF scope = "section" THEN AllSections ELSE PageSections

\* The section under processDiff as the page shows it after a timed wait.
Rerenders(filePath) ==
    {s \in Universe : FilePathOf(s) = filePath /\ Classify(s) \in {"load", "normal"}}

(***************************************************************************)
(* constructor: new JSZip(), hidden progress bar, enabled button.          *)
(***************************************************************************)
Init ==
    /\ disabled = FALSE
    /\ progressBar = [display |-> "none", text |-> <<>>]
    /\ zip = <<>>
    /\ scroll = "top"
    /\ run = [r \in Runs |-> IdleRun]
    /\ scope = "export"
    /\ obs = NoObs
    /\ call = NoCall

\* document.querySelectorAll('.file').length in loadAllDiffs
CountsSeen(r) ==
    IF scope = "loader" \/ run[r].iters = 1
    THEN 0..MaxFiles ELSE {run[r].lastFileCount}

\* The length of the snapshot exportDiffs takes, n being the last count of
\* loadAllDiffs: the two reads are separated by promise continuations only.
SnapshotCounts(n) == IF scope = "loader" THEN 0..MaxFiles ELSE {n}

Active(r) == run[r].pc \notin {"idle", "ended"}

\* Variant of DisabledByClick: the button is left enabled.
DisabledByClickOmitted == FALSE

\* this.exportButton.disabled = true
DisabledByClick == TRUE

\* Variant of NextStableCount: a changed count leaves the streak as it is.
NextStableCountNoReset(count, lastFileCount, stableCount) ==
    IF count = lastFileCount THEN stableCount + 1 ELSE stableCount

\* if (files.length === lastFileCount) stableCount++; else stableCount = 0
NextStableCount(count, lastFileCount, stableCount) ==
    IF count = lastFileCount THEN stableCount + 1 ELSE 0

\* Variant of LoopCondition: the ceiling is tested off by one.
LoopConditionOffByOne(tries) == tries <= maxTries

\* while (tries < maxTries)
LoopCondition(tries) == tries < maxTries

(***************************************************************************)
(* handleExportClick up to the first await of loadAllDiffs.  The browser   *)
(* dispatches no click event on a disabled button, and the tail of an      *)
(* ended run (promise settlement) runs before the next event.              *)
(***************************************************************************)
handleExportClick(r) ==
    /\ ~disabled
    /\ run[r].pc = "idle"
    /\ \A q \in Runs : run[q].pc # "ended" /\ (q < r => run[q].pc # "idle")
    /\ disabled' = DisabledByClick
    /\ progressBar' = [display |-> "block", text |-> <<"Loading all diffs...">>]
    /\ scroll' = "bottom"
    /\ run' = [run EXCEPT ![r] = [IdleRun EXCEPT !.pc = "loading", !.iters = 1]]
    /\ UNCHANGED <<zip, scope, obs, call>>

(***************************************************************************)
(* loadAllDiffs from the end of its 800 ms wait: count the sections (n),   *)
(* update the streak, then break, or start the next iteration, or leave    *)
(* the loop at the ceiling.  Leaving the loop returns to handleExportClick,*)
(* which calls exportDiffs: snapshot of the sections (m of them), the      *)
(* 'diffs' folder, and the for loop is entered.                            *)
(***************************************************************************)
loadAllDiffs(r) ==
    /\ run[r].pc = "loading"
    /\ \E n \in CountsSeen(r) :
        \E m \in SnapshotCounts(n) :
        LET stable == NextStableCount(n, run[r].lastFileCount,
                                      run[r].stableCount)
            brk    == stable >= StableCycles
            tries  == IF brk THEN run[r].tries ELSE run[r].tries + 1
            again  == ~brk /\ LoopCondition(tries)
        IN  IF again
            THEN /\ m = n
                 /\ run' = [run EXCEPT ![r].stableCount = stable,
                                       ![r].lastFileCount = n,
                                       ![r].tries = tries,
                                       ![r].iters = @ + 1]
                 /\ progressBar' = [display |-> "block", text |-> LoadingText(n)]
                 /\ scroll' = "bottom"
                 /\ UNCHANGED zip
            ELSE /\ run' = [run EXCEPT ![r].stableCount = stable,
                                       ![r].lastFileCount = n,
                                       ![r].tries = tries,
                                       ![r].pc = "extract",
                                       ![r].totalFiles = m,
                                       ![r].processedFiles = 0,
                                       ![r].fresh = ~HasFiles(zip)]
                 /\ progressBar' = [display |-> "none", text |-> LoadingText(n)]
                 /\ scroll' = "top"
                 /\ zip' = ZipFolder(zip, <<"diffs/">>)
    /\ UNCHANGED <<disabled, scope, obs, call>>

(***************************************************************************)
(* An exception inside loadAllDiffs (a DOM call that throws).  The await   *)
(* in handleExportClick is outside every try block: the rejection leaves   *)
(* handleExportClick and exportDiffs is never called.                      *)
(***************************************************************************)
loadAllDiffsThrows(r) ==
    /\ run[r].pc = "loading"
    /\ run' = [run EXCEPT ![r].pc = "ended", ![r].exit = "uncaught"]
    /\ UNCHANGED <<disabled, progressBar, zip, scroll, scope, obs, call>>

(***************************************************************************)
(* processDiff and tryLoadLargeDiff.                                       *)
(***************************************************************************)
\* One pass of the loop body of tryLoadLargeDiff over the section as read
\* now, followed, when the loop breaks, by the rest of processDiff.
AttemptOutcome(file, filePath) ==
    LET a == TryLoadAttempt(file)
        result == TryLoadResult(a = "notInline", a = "loaded")
    IN  IF a \in {"click", "poll"}
        THEN [wait |-> TRUE, click |-> a = "click", result |-> "none",
              diff |-> NoHunk]
        ELSE [wait |-> FALSE, click |-> FALSE, result |-> result,
              diff |-> LoadedHunk(file, filePath, result)]

\* Variant of AttemptsLeft: one pass too many.
AttemptsLeftOffByOne(attempt) == attempt <= MaxAttempts

\* for (let attempt = 0; attempt < 5; attempt++)
AttemptsLeft(attempt) == attempt < MaxAttempts

\* Variant of Counted: a section without a record is not counted.
CountedWhenWritten(processedFiles, skipped) ==
    IF skipped THEN processedFiles ELSE processedFiles + 1

\* processedFiles++ after the if (diff) block: every section is counted.
Counted(processedFiles, skipped) == processedFiles + 1

\* The for loop of exportDiffs after processDiff returned diff (or null,
\* skipped): write the entry, count the section, show the progress.
SectionDone(r, skipped, diff) ==
    /\ zip' = IF skipped THEN zip
              ELSE ZipFile(zip, EntryName(diff), createMarkdownContent(diff))
    /\ run' = [run EXCEPT ![r].pc = "extract",
                          ![r].processedFiles = Counted(@, skipped),
                          ![r].filePath = <<>>,
                          ![r].attempt = 0,
                          ![r].clicks = 0,
                          ![r].log = Append(@, [skipped |-> skipped, diff |-> diff])]
    /\ progressBar' = [display |-> "block",
                       text |-> ProcessingText(
                                    Counted(run[r].processedFiles, skipped),
                                    run[r].totalFiles)]

\* tryLoadLargeDiff clicked the control or found nothing yet, and waits.
SectionWaits(r, filePath, attempt, click) ==
    /\ run' = [run EXCEPT ![r].pc = "tryLoad",
                          ![r].filePath = filePath,
                          ![r].attempt = attempt,
                          ![r].clicks = IF click THEN @ + 1 ELSE @]
    /\ UNCHANGED <<zip, progressBar>>

\* History of a pass of the loop body over file (scope "section").
ObsAttempt(o, file, out) ==
    [o EXCEPT !.last = IF out.wait THEN NoFile ELSE file,
              !.attempts = @ + 1,
              !.button = @ \/ file.btn,
              !.clicks = IF out.wait /\ out.click THEN @ + 1 ELSE @,
              !.linkOnly = @ \/ (file.link /\ ~file.btn),
              !.bareLines = @ \/ (~file.btn /\ ~file.link /\ HasDiffLines(file)),
              !.done = ~out.wait,
              !.result = out.result,
              !.diff = out.diff]

(***************************************************************************)
(* exportDiffs calls processDiff for the next section of its snapshot; the *)
(* section is read as the page shows it now.  processDiff runs to its      *)
(* return, or to the first timed wait of tryLoadLargeDiff.                 *)
(***************************************************************************)
processDiff(r) ==
    /\ run[r].pc = "extract"
    /\ run[r].processedFiles < run[r].totalFiles
    /\ \E file \in Universe :
        LET kind == Classify(file)
            filePath == FilePathOf(file)
            out == AttemptOutcome(file, filePath)
            start == [NoObs EXCEPT
                        !.kind = kind, !.last = file,
                        !.unrendered =
                            /\ Trim(file.path) # <<>> /\ ~file.binary
                            /\ file.label \notin {"new file", "added"}
                            /\ ~file.infoNewFile
                            /\ \A i \in 1..Len(file.lines) :
                                   file.lines[i] = "context"]
        IN  CASE kind = "skip" ->
                   /\ SectionDone(r, TRUE, NoHunk)
                   /\ obs' = IF scope = "section"
                             THEN [start EXCEPT !.done = TRUE, !.skipped = TRUE]
                             ELSE obs
              [] kind = "binary" ->
                   /\ SectionDone(r, FALSE, BinaryHunk(file))
                   /\ obs' = IF scope = "section"
                             THEN [start EXCEPT !.done = TRUE,
                                                !.diff = BinaryHunk(file)]
                             ELSE obs
              [] kind = "new" ->
                   /\ SectionDone(r, FALSE, NewFileHunk(file))
                   /\ obs' = IF scope = "section"
                             THEN [start EXCEPT !.done = TRUE,
                                                !.diff = NewFileHunk(file)]
                             ELSE obs
              [] kind = "normal" ->
                   /\ SectionDone(r, FALSE, LoadedHunk(file, filePath, "none"))
                   /\ obs' = IF scope = "section"
                             THEN [start EXCEPT
                                     !.done = TRUE,
                                     !.diff = LoadedHunk(file, filePath, "none")]
                             ELSE obs
              [] kind = "load" ->
                   /\ IF out.wait
                      THEN SectionWaits(r, filePath, 0, out.click)
                      ELSE SectionDone(r, FALSE, out.diff)
                   /\ obs' = IF scope = "section"
                             THEN ObsAttempt(start, file, out)
                             ELSE obs
    /\ UNCHANGED <<disabled, scroll, scope, call>>

(***************************************************************************)
(* tryLoadLargeDiff from the end of a timed wait (1200 ms after a click,   *)
(* 600 ms otherwise): attempt++, then the next pass over the section as    *)
(* the page shows it now, or, after the last pass, return 'tooLarge' and   *)
(* the rest of processDiff.                                                *)
(***************************************************************************)
tryLoadLargeDiff(r) ==
    /\ run[r].pc = "tryLoad"
    /\ \E file \in Rerenders(run[r].filePath) :
        LET attempt == run[r].attempt + 1
            filePath == run[r].filePath
            out == AttemptOutcome(file, filePath)
            result == TryLoadResult(FALSE, FALSE)
            diff == LoadedHunk(file, filePath, result)
        IN  IF AttemptsLeft(attempt)
            THEN /\ IF out.wait
                    THEN SectionWaits(r, filePath, attempt, out.click)
                    ELSE SectionDone(r, FALSE, out.diff)
                 /\ obs' = IF scope = "section"
                           THEN ObsAttempt(obs, file, out) ELSE obs
            ELSE /\ SectionDone(r, FALSE, diff)
                 /\ obs' = IF scope = "section"
                           THEN [obs EXCEPT !.last = file, !.done = TRUE,
                                            !.result = result, !.diff = diff]
                           ELSE obs
    /\ UNCHANGED <<disabled, scroll, scope, call>>

\* catch (error) { console.error; alert } finally { button enabled,
\* progress hidden }: the run ends without a save.
CatchAndFinally(r) ==
    /\ run' = [run EXCEPT ![r].pc = "ended", ![r].exit = "caught"]
    /\ zip' = Settle(zip, "aborted")
    /\ disabled' = FALSE
    /\ progressBar' = [progressBar EXCEPT !.display = "none"]
    /\ UNCHANGED <<scroll, scope, obs, call>>

(***************************************************************************)
(* An exception inside the for loop of exportDiffs (processDiff,           *)
(* tryLoadLargeDiff, createMarkdownContent or folder.file throws).         *)
(***************************************************************************)
processDiffThrows(r) ==
    /\ \/ run[r].pc = "tryLoad"
       \/ run[r].pc = "extract" /\ run[r].processedFiles < run[r].totalFiles
    /\ CatchAndFinally(r)

(***************************************************************************)
(* exportDiffs after the for loop: this.zip.generateAsync is called and    *)
(* awaited.                                                                *)
(***************************************************************************)
generateAsync(r) ==
    /\ run[r].pc = "extract"
    /\ run[r].processedFiles = run[r].totalFiles
    /\ run' = [run EXCEPT ![r].pc = "generate"]
    /\ UNCHANGED <<disabled, progressBar, zip, scroll, scope, obs, call>>

(***************************************************************************)
(* generateAsync resolved: saveAs(zipBlob, name), then the finally block.  *)
(***************************************************************************)
saveArchive(r) ==
    /\ run[r].pc = "generate"
    /\ run' = [run EXCEPT ![r].pc = "ended", ![r].exit = "saved",
                          ![r].zipBlob = zip, ![r].saves = @ + 1]
    /\ zip' = Settle(zip, "ok")
    /\ disabled' = FALSE
    /\ progressBar' = [progressBar EXCEPT !.display = "none"]
    /\ UNCHANGED <<scroll, scope, obs, call>>

(***************************************************************************)
(* generateAsync rejected, or saveAs threw before handing anything over.   *)
(***************************************************************************)
archiveFails(r) ==
    /\ run[r].pc = "generate"
    /\ CatchAndFinally(r)

(***************************************************************************)
(* The promise of an ended handleExportClick settles; its frame is gone.   *)
(***************************************************************************)
runEnds(r) ==
    /\ run[r].pc = "ended"
    /\ run' = [run EXCEPT ![r] = IdleRun]
    /\ UNCHANGED <<disabled, progressBar, zip, scroll, scope, obs, call>>

Next ==
    \E r \in Runs :
        \/ handleExportClick(r)
        \/ loadAllDiffs(r)
        \/ loadAllDiffsThrows(r)
        \/ processDiff(r)
        \/ tryLoadLargeDiff(r)
        \/ processDiffThrows(r)
        \/ generateAsync(r)
        \/ saveArchive(r)
        \/ archiveFails(r)
        \/ runEnds(r)

Spec == Init /\ [][Next]_vars

(***************************************************************************)
(* The loader alone, on a page whose section count changes freely.  The    *)
(* 800 ms timer of an iteration always fires.                              *)
(***************************************************************************)
InitLoader ==
    /\ disabled = FALSE
    /\ progressBar = [display |-> "none", text |-> <<>>]
    /\ zip = <<>>
    /\ scroll = "top"
    /\ run = [r \in Runs |-> IdleRun]
    /\ scope = "loader"
    /\ obs = NoObs
    /\ call = NoCall

NextLoader ==
    \E r \in Runs :
        \/ handleExportClick(r)
        \/ loadAllDiffs(r)
        \/ loadAllDiffsThrows(r)
        \/ runEnds(r)

SpecLoader ==
    InitLoader /\ [][NextLoader]_vars /\ \A r \in Runs : WF_vars(loadAllDiffs(r))

(***************************************************************************)
(* The extraction of one section: the run has counted one section four     *)
(* times, taken its snapshot and is about to call processDiff.             *)
(***************************************************************************)
InitSection ==
    /\ disabled = TRUE
    /\ progressBar = [display |-> "none", text |-> LoadingText(1)]
    /\ zip = ZipFolder(<<>>, <<"diffs/">>)
    /\ scroll = "top"
    /\ run = [r \in Runs |->
                IF r = 1
                THEN [IdleRun EXCEPT !.pc = "extract", !.lastFileCount = 1,
                                     !.stableCount = StableCycles,
                                     !.tries = StableCycles,
                                     !.iters = StableCycles + 1,
                                     !.totalFiles = 1, !.fresh = TRUE]
                ELSE IdleRun]
    /\ scope = "section"
    /\ obs = NoObs
    /\ call = NoCall

NextSection ==
    \E r \in Runs :
        \/ processDiff(r)
        \/ tryLoadLargeDiff(r)

SpecSection == InitSection /\ [][NextSection]_vars

(***************************************************************************)
(* createMarkdownContent on its own: the method is called twice on one     *)
(* DiffHunk, any combination of flags and texts.                           *)
(***************************************************************************)
\* What the lines of a section can join to.
Texts == {BlockText(l) : l \in LineSeqs}

Hunks ==
    {DiffHunk(before, after, filePath, tooLarge, notInline, isNew) :
        before \in Texts, after \in Texts,
        filePath \in {Trim(q) : q \in Paths} \ {<<>>},
        tooLarge \in BOOLEAN, notInline \in BOOLEAN, isNew \in BOOLEAN}

InitFormat ==
    /\ disabled = FALSE
    /\ progressBar = [display |-> "none", text |-> <<>>]
    /\ zip = <<>>
    /\ scroll = "top"
    /\ run = [r \in Runs |-> IdleRun]
    /\ scope = "format"
    /\ obs = NoObs
    /\ call \in {[NoCall EXCEPT !.fn = "createMarkdownContent", !.arg = diff] :
                    diff \in Hunks}

\* const markdownContent = this.createMarkdownContent(diff)
callCreateMarkdownContent ==
    /\ scope = "format"
    /\ call.calls < 2
    /\ call' = [call EXCEPT
                  !.calls = @ + 1,
                  !.out = IF call.calls = 0
                          THEN createMarkdownContent(call.arg) ELSE @,
                  !.again = IF call.calls = 1
                            THEN createMarkdownContent(call.arg) ELSE @]
    /\ UNCHANGED <<disabled, progressBar, zip, scroll, run, scope, obs>>

NextFormat == callCreateMarkdownContent

SpecFormat == InitFormat /\ [][NextFormat]_vars

(***************************************************************************)
(* getFileExtension and getBaseName on their own: one of them is called on *)
(* a file path of up to MaxPath characters.                                *)
(***************************************************************************)
PathChars == {"a", "b", ".", "/"}

PathStrings == UNION {[1..k -> PathChars] : k \in 0..MaxPath}

InitPath ==
    /\ disabled = FALSE
    /\ progressBar = [display |-> "none", text |-> <<>>]
    /\ zip = <<>>
    /\ scroll = "top"
    /\ run = [r \in Runs |-> IdleRun]
    /\ scope = "path"
    /\ obs = NoObs
    /\ call \in {[NoCall EXCEPT !.arg = filePath] : filePath \in PathStrings}

\* const extension = this.getFileExtension(filePath)
callGetFileExtension ==
    /\ scope = "path"
    /\ call.fn = "none"
    /\ call' = [call EXCEPT !.fn = "getFileExtension", !.calls = 1,
                            !.out = getFileExtension(call.arg)]
    /\ UNCHANGED <<disabled, progressBar, zip, scroll, run, scope, obs>>

\* const baseName = this.getBaseName(filePath)
callGetBaseName ==
    /\ scope = "path"
    /\ call.fn = "none"
    /\ call' = [call EXCEPT !.fn = "getBaseName", !.calls = 1,
                            !.out = getBaseName(call.arg)]
    /\ UNCHANGED <<disabled, progressBar, zip, scroll, run, scope, obs>>

NextPath == callGetFileExtension \/ callGetBaseName

SpecPath == InitPath /\ [][NextPath]_vars

(***************************************************************************)
(* Properties.                                                             *)
(***************************************************************************)
FileEntries(z) == SelectSeq(z, LAMBDA e : ~e.dir)

Written(r) == SelectSeq(run[r].log, LAMBDA e : ~e.skipped)

BinaryMessage(baseName) ==
    <<"# ">> \o baseName
    \o <<"\n\nNo textual changes, file is binary, or too large to display.">>

TooLargeMessage(baseName) ==
    <<"# ">> \o baseName
    \o <<"\n\nDiff too large to display on GitHub. Not available for export.">>

\* C1: every run that has ended, on whatever path, has left the button
\* enabled and the progress element hidden.
C1_RunEndRestoresControl ==
    \A r \in Runs :
        run[r].pc = "ended" => ~disabled /\ progressBar.display = "none"

\* C2: every file entry of the archive a run saves is the entry of a section
\* that same run processed.
C2_ArchiveOnlyFromThisRun ==
    \A r \in Runs :
        run[r].exit = "saved" =>
            \A i \in 1..Len(run[r].zipBlob) :
                ~run[r].zipBlob[i].dir =>
                    \E k \in 1..Len(run[r].log) :
                        /\ ~run[r].log[k].skipped
                        /\ EntryName(run[r].log[k].diff) = run[r].zipBlob[i].name

\* C3: at most one run is in flight at any moment, and the button is
\* disabled for as long as a run is in flight.
C3_RunsNeverOverlap ==
    /\ Cardinality({r \in Runs : Active(r)}) <= 1
    /\ \A r \in Runs : Active(r) => disabled

\* C3 witness: a run waits inside tryLoadLargeDiff after a click on a
\* load-diff control, having already written an entry, the button disabled.
C3_Witness ==
    \E r \in Runs :
        /\ run[r].pc = "tryLoad" /\ run[r].clicks > 0
        /\ run[r].processedFiles > 0 /\ Len(FileEntries(zip)) > 0
        /\ disabled

\* C4: a run saves at most once, only after all its sections and only when
\* nothing threw, and the saved archive holds no entry left behind by a run
\* that was aborted.
C4_AllOrNothing ==
    \A r \in Runs :
        /\ run[r].saves <= 1
        /\ run[r].saves = 1 =>
              run[r].exit = "saved" /\ run[r].processedFiles = run[r].totalFiles
        /\ run[r].exit \in {"caught", "uncaught"} => run[r].saves = 0
        /\ run[r].exit = "saved" =>
              \A i \in 1..Len(run[r].zipBlob) : run[r].zipBlob[i].by # "aborted"

\* C5: loadAllDiffs never starts more than maxTries iterations, and a run
\* that waits in loadAllDiffs always leaves it (to the extraction phase, or
\* by an exception).
C5_LoaderTerminates ==
    /\ [](\A r \in Runs : run[r].iters <= maxTries)
    /\ \A r \in Runs :
          (run[r].pc = "loading") ~> (run[r].pc \in {"extract", "ended"})

\* C5 witness: the loop was left at the ceiling, the count having changed at
\* the last observation, and the extraction phase has started.
C5_Witness ==
    \E r \in Runs :
        /\ run[r].pc = "extract" /\ run[r].tries = maxTries
        /\ run[r].iters = maxTries /\ run[r].stableCount = 0
        /\ run[r].totalFiles > 0

\* C6: tryLoadLargeDiff makes at most 5 passes and at most 5 clicks, returns
\* one of its three results, and returns tooLarge after 5 passes none of
\* which saw a link without a button or changed lines without a control.
C6_LoadAttemptsBounded ==
    /\ obs.attempts <= MaxAttempts
    /\ obs.clicks <= MaxAttempts
    /\ \A r \in Runs : run[r].clicks <= MaxAttempts /\ run[r].attempt < MaxAttempts
    /\ (obs.done /\ obs.attempts > 0) =>
          /\ obs.result \in {"loaded", "tooLarge", "notInline"}
          /\ (obs.attempts = MaxAttempts /\ ~obs.linkOnly /\ ~obs.bareLines)
                => obs.result = "tooLarge"

\* C6 witness: five passes, each clicking a control, ended in tooLarge.
C6_Witness ==
    /\ obs.done /\ obs.attempts = MaxAttempts /\ obs.clicks = MaxAttempts
    /\ obs.result = "tooLarge"

\* C7: a record with the not-inline flag has empty before and after text.
C7_NotInlineRecordEmpty ==
    (obs.done /\ obs.diff.notInline) =>
        obs.diff.before = <<>> /\ obs.diff.after = <<>>

\* C8 as stated: the saved archive has exactly one file entry per section of
\* the snapshot, in document order, each named after its section's record
\* and holding the formatter's output for it.
C8_ExactlyNEntries ==
    \A r \in Runs :
        run[r].exit = "saved" =>
            LET files == FileEntries(run[r].zipBlob)
            IN  /\ Len(files) = run[r].totalFiles
                /\ \A i \in 1..Len(files) :
                      /\ i <= Len(run[r].log)
                      /\ ~run[r].log[i].skipped
                      /\ files[i].name = EntryName(run[r].log[i].diff)
                      /\ files[i].content =
                             createMarkdownContent(run[r].log[i].diff)

\* The sections of run r with a file path, pairwise of different base names.
DistinctNames(r) ==
    \A i, k \in 1..Len(Written(r)) :
        i # k => Written(r)[i].diff.baseName # Written(r)[k].diff.baseName

\* C8 amended: all N sections are processed; every section with a file path
\* has its entry diffs/<baseName>.md in the saved archive, written by this
\* run and holding the formatter's output for the last section of that base
\* name; and when this.zip held no file as the run began and the base names
\* differ, the file entries are exactly those of the sections with a file
\* path, in document order.
C8_EntriesOfTheRun ==
    \A r \in Runs :
        run[r].exit = "saved" =>
            LET files == FileEntries(run[r].zipBlob)
                w == Written(r)
            IN  /\ Len(run[r].log) = run[r].totalFiles
                /\ \A i \in 1..Len(w) :
                      \E k \in 1..Len(files) :
                          /\ files[k].name = EntryName(w[i].diff)
                          /\ files[k].by = "cur"
                          /\ \E j \in i..Len(w) :
                                /\ w[j].diff.baseName = w[i].diff.baseName
                                /\ \A m \in (j + 1)..Len(w) :
                                      w[m].diff.baseName # w[i].diff.baseName
                                /\ files[k].content =
                                       createMarkdownContent(w[j].diff)
                /\ (run[r].fresh /\ DistinctNames(r))
                      => /\ Len(files) = Len(w)
                         /\ \A i \in 1..Len(w) :
                               /\ files[i].name = EntryName(w[i].diff)
                               /\ files[i].content =
                                      createMarkdownContent(w[i].diff)

\* C8 witness: a run that began with an empty this.zip saved an archive of
\* two sections with file paths and different base names.
C8_Witness ==
    \E r \in Runs :
        /\ run[r].exit = "saved" /\ run[r].totalFiles = 2 /\ run[r].fresh
        /\ Len(Written(r)) = 2 /\ DistinctNames(r)
        /\ Len(FileEntries(run[r].zipBlob)) = 2

\* C9: a section with a file path and a binary marker, whatever else it
\* shows, gives a record with empty before and after and no flag, without
\* any pass of the load loop or click, and its entry is the fixed
\* no-textual-changes/binary message.
C9_BinaryWins ==
    (obs.done /\ obs.last.binary /\ Trim(obs.last.path) # <<>>) =>
        /\ ~obs.skipped
        /\ obs.diff.before = <<>> /\ obs.diff.after = <<>>
        /\ ~obs.diff.tooLarge /\ ~obs.diff.notInline /\ ~obs.diff.isNewFile
        /\ obs.attempts = 0 /\ obs.clicks = 0
        /\ createMarkdownContent(obs.diff) = BinaryMessage(obs.diff.baseName)
        /\ obs.diff.baseName = getBaseName(Trim(obs.last.path))
        /\ \E i \in 1..Len(zip) :
              /\ zip[i].name = EntryName(obs.diff)
              /\ zip[i].content = BinaryMessage(obs.diff.baseName)

\* C9 witness: a binary section that also shows a new-file label, changed
\* lines, a load-diff button and link and the too-large text was processed.
C9_Witness ==
    /\ obs.done /\ obs.last.binary /\ Trim(obs.last.path) # <<>>
    /\ obs.last.label = "new file" /\ obs.last.btn /\ obs.last.link
    /\ obs.last.tooLargeDisplay /\ obs.last.tooLargeRender
    /\ Len(obs.last.lines) > 0 /\ obs.last.lines[1] = "deletion"

\* C10: for a section that was not binary, not new and without changed
\* lines, the too-large flag is set exactly when tryLoadLargeDiff returned
\* tooLarge and the section text has a too-large message; without the flag
\* the record holds the lines read again after the attempt; five passes
\* that saw no control and no lines, with 'too large to render' in the
\* text, give the flag and the fixed too-large message.
C10_TooLargeFlag ==
    (obs.done /\ obs.unrendered) =>
        /\ obs.attempts > 0
        /\ obs.diff.tooLarge <=>
              (obs.result = "tooLarge"
                  /\ (obs.last.tooLargeDisplay \/ obs.last.tooLargeRender))
        /\ ~obs.diff.tooLarge =>
              /\ obs.diff.before = BlockText(Blocks(obs.last, "deletion"))
              /\ obs.diff.after = BlockText(Blocks(obs.last, "addition"))
        /\ (obs.attempts = MaxAttempts /\ ~obs.button /\ ~obs.linkOnly
               /\ ~obs.bareLines /\ obs.last.tooLargeRender)
              => /\ obs.diff.tooLarge
                 /\ createMarkdownContent(obs.diff)
                        = TooLargeMessage(obs.diff.baseName)

\* C10 witness: five passes without a control, the text says 'too large to
\* render' only, and the record is flagged too large.
C10_Witness ==
    /\ obs.done /\ obs.unrendered /\ obs.attempts = MaxAttempts
    /\ ~obs.button /\ ~obs.linkOnly /\ ~obs.bareLines
    /\ obs.last.tooLargeRender /\ ~obs.last.tooLargeDisplay
    /\ obs.diff.tooLarge

\* The archive a run's entries are looked up in: the saved blob of a run
\* that saved, this.zip of a run in flight.
ArchiveOf(r) == IF run[r].exit = "saved" THEN run[r].zipBlob ELSE zip

\* C11: when records of one run share a baseName the archive holds exactly
\* one entry of that name, with the formatter's output for the last such
\* record in document order; and a write changes the content of no entry
\* of another name, removes no entry and renames none.
C11_LastWriteWins ==
    /\ [](\A r \in Runs :
            (run[r].pc \in {"extract", "tryLoad", "generate"}
                \/ run[r].exit = "saved") =>
                LET z == ArchiveOf(r)
                    w == Written(r)
                IN  \A i \in 1..Len(w) :
                        /\ Cardinality({k \in 1..Len(z) :
                               z[k].name = EntryName(w[i].diff)}) = 1
                        /\ \A k \in 1..Len(z) :
                               z[k].name = EntryName(w[i].diff) =>
                                   \E j \in i..Len(w) :
                                       /\ w[j].diff.baseName = w[i].diff.baseName
                                       /\ \A m \in (j + 1)..Len(w) :
                                              w[m].diff.baseName
                                                  # w[i].diff.baseName
                                       /\ z[k].content =
                                              createMarkdownContent(w[j].diff))
    /\ [][/\ Len(zip') >= Len(zip)
          /\ \A i \in 1..Len(zip) :
                /\ zip'[i].name = zip[i].name
                /\ zip'[i].content # zip[i].content =>
                      \E r \in Runs :
                          LET log == run'[r].log
                          IN  /\ Len(log) = Len(run[r].log) + 1
                              /\ ~log[Len(log)].skipped
                              /\ EntryName(log[Len(log)].diff) = zip[i].name]_vars

\* C11 witness: a saved run of two sections with one baseName and different
\* documents; the archive has the one entry, holding the second document.
C11_Witness ==
    \E r \in Runs :
        LET w == Written(r)
            files == FileEntries(run[r].zipBlob)
        IN  /\ run[r].exit = "saved" /\ Len(w) = 2
            /\ w[1].diff.baseName = w[2].diff.baseName
            /\ createMarkdownContent(w[1].diff) # createMarkdownContent(w[2].diff)
            /\ Len(files) = 1
            /\ files[1].content = createMarkdownContent(w[2].diff)

NotInlineMessage(baseName) ==
    <<"# ">> \o baseName
    \o <<"\n\nDiff not available inline. Please view the file directly on GitHub.">>

NewFileDocument(diff) ==
    <<"# ">> \o diff.baseName
    \o <<"\n\n## Before\nThis file did not exist before.\n\n## After\n~~~">>
    \o diff.extension \o <<"\n">> \o diff.after \o <<"\n~~~\n">>

DefaultDocument(diff) ==
    <<"# ">> \o diff.baseName
    \o <<"\n\n## Before\n~~~">> \o diff.extension \o <<"\n">>
    \o diff.before \o <<"\n~~~\n\n## After\n~~~">> \o diff.extension
    \o <<"\n">> \o diff.after \o <<"\n~~~\n">>

\* C12: the formatter returns the not-inline message for every record with
\* the not-inline flag; otherwise the too-large message for every record
\* with the too-large flag; otherwise the new-file document for every
\* record with the new-file flag; otherwise the binary-or-empty message
\* when before and after are both empty; otherwise the default document;
\* and a second call on the same record returns the same text.
C12_FirstMatchWins ==
    call.calls >= 1 =>
        LET diff == call.arg
        IN  /\ diff.notInline => call.out = NotInlineMessage(diff.baseName)
            /\ (~diff.notInline /\ diff.tooLarge)
                  => call.out = TooLargeMessage(diff.baseName)
            /\ (~diff.notInline /\ ~diff.tooLarge /\ diff.isNewFile)
                  => call.out = NewFileDocument(diff)
            /\ (~diff.notInline /\ ~diff.tooLarge /\ ~diff.isNewFile
                   /\ diff.before = <<>> /\ diff.after = <<>>)
                  => call.out = BinaryMessage(diff.baseName)
            /\ (~diff.notInline /\ ~diff.tooLarge /\ ~diff.isNewFile
                   /\ ~(diff.before = <<>> /\ diff.after = <<>>))
                  => call.out = DefaultDocument(diff)
            /\ call.calls = 2 => call.again = call.out

\* C12 witness: a record with all three flags and non-empty before and
\* after was formatted twice and gave the not-inline message.
C12_Witness ==
    /\ call.fn = "createMarkdownContent" /\ call.calls = 2
    /\ call.arg.notInline /\ call.arg.tooLarge /\ call.arg.isNewFile
    /\ call.arg.before # <<>> /\ call.arg.after # <<>>
    /\ call.out = NotInlineMessage(call.arg.baseName)

\* The position of the last c in s, 0 when s has none.
LastIndexOf(s, c) ==
    IF \E i \in 1..Len(s) : s[i] = c
    THEN CHOOSE i \in 1..Len(s) :
             s[i] = c /\ \A j \in (i + 1)..Len(s) : s[j] # c
    ELSE 0

\* C13: for a path with a '.' after its first character the extension is
\* the text after the last '.'; for a path without a '.', or whose only
\* '.' is its first character, the extension is empty.
C13_ExtensionAfterLastDot ==
    call.fn = "getFileExtension" =>
        LET filePath == call.arg
            dot == LastIndexOf(filePath, ".")
        IN  IF dot > 1
            THEN call.out = SubSeq(filePath, dot + 1, Len(filePath))
            ELSE call.out = <<>>

\* C14: for a non-empty path the baseName is the text after the last '/',
\* empty when the path ends in '/', and the path itself when it has no '/'.
C14_BaseNameAfterLastSlash ==
    (call.fn = "getBaseName" /\ call.arg # <<>>) =>
        LET filePath == call.arg
            slash == LastIndexOf(filePath, "/")
        IN  IF slash > 0
            THEN call.out = SubSeq(filePath, slash + 1, Len(filePath))
            ELSE call.out = filePath

\* C15: a run is in the loader's loop only while the streak is below 3 and
\* fewer than 50 iterations have been completed, and has left it only with
\* the streak at 3 or the ceiling reached, the view scrolled to the top and
\* the progress element hidden; the first iteration compares with a count
\* of 0; every iteration sets the streak to the old streak plus one when
\* its count equals the previous observation and to 0 when it differs.
C15_StopsWhenStableOrCeiling ==
    /\ [](\A r \in Runs :
            /\ run[r].pc = "loading" =>
                  /\ run[r].stableCount < StableCycles
                  /\ run[r].tries < maxTries
                  /\ run[r].iters = run[r].tries + 1
                  /\ run[r].iters = 1 =>
                        run[r].lastFileCount = 0 /\ run[r].stableCount = 0
            /\ run[r].pc = "extract" =>
                  /\ run[r].stableCount = StableCycles
                        \/ (run[r].tries = maxTries /\ run[r].iters = maxTries)
                  /\ scroll = "top"
                  /\ progressBar.display = "none")
    /\ [][\A r \in Runs :
            (run[r].pc = "loading" /\ run'[r].pc \in {"loading", "extract"}
                /\ run'[r] # run[r]) =>
                /\ run'[r].lastFileCount = run[r].lastFileCount
                      => run'[r].stableCount = run[r].stableCount + 1
                /\ run'[r].lastFileCount # run[r].lastFileCount
                      => run'[r].stableCount = 0
                /\ run'[r].pc = "extract" <=>
                      \/ run'[r].stableCount = StableCycles
                      \/ run[r].iters = maxTries]_vars

\* C15 witness: the loop was left with a streak of 3 in its sixth
\* iteration, on a page of one section: the streak had been reset on the
\* way.
C15_Witness ==
    \E r \in Runs :
        /\ run[r].pc = "extract" /\ run[r].stableCount = StableCycles
        /\ run[r].iters = 6 /\ run[r].lastFileCount = 1
        /\ scroll = "top" /\ progressBar.display = "none"

\* C16: in the extraction loop the counter never exceeds the snapshot's
\* section count, equals the number of sections processed so far (skipped
\* ones included) and equals the total once the loop is left; a step of the
\* loop that finishes a section raises it by exactly 1 and no other step
\* changes it or the total; after every section the progress element shows
\* the counter, the total and the percentage, which is the counter times
\* 100 over the total rounded to the nearest integer (half up), within
\* 0..100; with a total of 0 the percentage is 0.
C16_ProgressCounts ==
    /\ [](\A r \in Runs :
            /\ run[r].processedFiles <= run[r].totalFiles
            /\ Percentage(run[r].processedFiles, 0) = 0
            /\ run[r].pc \in {"extract", "tryLoad", "generate"} =>
                  Len(run[r].log) = run[r].processedFiles
            /\ run[r].pc = "generate" =>
                  run[r].processedFiles = run[r].totalFiles
            /\ (run[r].pc \in {"extract", "tryLoad", "generate"}
                   /\ run[r].processedFiles >= 1) =>
                  LET current == run[r].processedFiles
                      total == run[r].totalFiles
                      percentage == progressBar.text[2]
                  IN  /\ progressBar.display = "block"
                      /\ progressBar.text =
                             <<"Processing files: ", percentage, "% (",
                               current, "/", total, ")">>
                      /\ percentage \in 0..100
                      /\ 2 * total * percentage <= 200 * current + total
                      /\ 200 * current + total < 2 * total * (percentage + 1))
    /\ [][\A r \in Runs :
            (run[r].pc \in {"extract", "tryLoad"}
                /\ run'[r].pc \in {"extract", "tryLoad", "generate"}) =>
                /\ run'[r].totalFiles = run[r].totalFiles
                /\ IF Len(run'[r].log) = Len(run[r].log) + 1
                   THEN run'[r].processedFiles = run[r].processedFiles + 1
                   ELSE /\ run'[r].log = run[r].log
                        /\ run'[r].processedFiles = run[r].processedFiles]_vars

\* C16 witness: the first of two sections was skipped and the progress
\* element shows 50% (1/2).
C16_Witness ==
    \E r \in Runs :
        /\ run[r].pc = "extract" /\ run[r].totalFiles = 2
        /\ run[r].processedFiles = 1 /\ run[r].log[1].skipped
        /\ progressBar.text = <<"Processing files: ", 50, "% (", 1, "/", 2, ")">>

\* C17: a section whose path link is missing or holds only white space is
\* skipped: processDiff returns no record, the archive gets no entry, no
\* pass of the load loop is made and no control is clicked, nothing is
\* thrown, and the loop of exportDiffs has counted the section and stands
\* before the next one; and only such a section is skipped.
C17_NoPathSkipped ==
    /\ (obs.done /\ \A i \in 1..Len(obs.last.path) : obs.last.path[i] = " ") =>
          /\ obs.skipped /\ obs.kind = "skip" /\ obs.diff = NoHunk
          /\ FileEntries(zip) = <<>>
          /\ obs.attempts = 0 /\ obs.clicks = 0 /\ obs.result = "none"
          /\ \A r \in Runs :
                run[r].log # <<>> =>
                    /\ run[r].log = <<[skipped |-> TRUE, diff |-> NoHunk]>>
                    /\ run[r].pc = "extract" /\ run[r].exit = "none"
                    /\ run[r].processedFiles = 1 /\ run[r].clicks = 0
    /\ (obs.done /\ obs.skipped) =>
          \A i \in 1..Len(obs.last.path) : obs.last.path[i] = " "

\* C17 witness: a section whose path link holds one blank, with changed
\* lines, a load-diff button and a load-diff link, was skipped.
C17_Witness ==
    /\ obs.done /\ obs.skipped /\ obs.last.path = <<" ">>
    /\ obs.last.btn /\ obs.last.link /\ ~obs.last.binary
    /\ Len(obs.last.lines) > 0
    /\ \E r \in Runs : run[r].processedFiles = 1 /\ run[r].pc = "extract"

\* C18: every record processDiff returns has at most one of the flags
\* isNewFile, tooLarge and notInline set.
C18_FlagsExclusive ==
    (obs.done /\ ~obs.skipped) =>
        /\ ~(obs.diff.isNewFile /\ obs.diff.tooLarge)
        /\ ~(obs.diff.isNewFile /\ obs.diff.notInline)
        /\ ~(obs.diff.tooLarge /\ obs.diff.notInline)

\* C18 witness: after a click and a re-render the section shows a load-diff
\* link without a button and a too-large text: the record is flagged
\* not-inline.
C18_Witness ==
    /\ obs.done /\ obs.diff.notInline /\ obs.clicks > 0
    /\ obs.last.link /\ ~obs.last.btn
    /\ obs.last.tooLargeDisplay /\ obs.last.tooLargeRender

\* C19: a pass of the load loop, a click and a timed wait happen only for
\* a section that had a file path, no binary marker, no new-file marker
\* and no deletion or addition line when processDiff was called; the
\* record of every other section is built from the section as processDiff
\* read it at that one instant.
C19_LoadOnlyWhenUnrendered ==
    /\ (obs.attempts > 0 \/ obs.clicks > 0
           \/ \E r \in Runs : run[r].pc = "tryLoad" \/ run[r].clicks > 0)
          => obs.unrendered
    /\ (obs.done /\ ~obs.unrendered) =>
          /\ obs.attempts = 0 /\ obs.clicks = 0 /\ obs.result = "none"
          /\ ~obs.skipped =>
                LET file == obs.last
                    new == \/ file.label \in {"new file", "added"}
                           \/ file.infoNewFile
                IN  /\ obs.diff.filePath = Trim(file.path)
                    /\ ~obs.diff.tooLarge /\ ~obs.diff.notInline
                    /\ file.binary =>
                          /\ obs.diff.before = <<>> /\ obs.diff.after = <<>>
                          /\ ~obs.diff.isNewFile
                    /\ (~file.binary /\ new) =>
                          /\ obs.diff.isNewFile
                          /\ obs.diff.after = BlockText(file.lines)
                    /\ (~file.binary /\ ~new) =>
                          /\ ~obs.diff.isNewFile
                          /\ obs.diff.before
                                = BlockText(Blocks(file, "deletion"))
                          /\ obs.diff.after
                                = BlockText(Blocks(file, "addition"))

\* C19 witness: a section with a deletion line, a load-diff button and a
\* load-diff link gave its record without a pass of the load loop.
C19_Witness ==
    /\ obs.done /\ ~obs.unrendered /\ obs.kind = "normal"
    /\ obs.last.btn /\ obs.last.link
    /\ obs.last.lines = <<"deletion">>
    /\ obs.attempts = 0 /\ obs.clicks = 0
    /\ obs.diff.before = <<"foo">>

====
